---- MODULE Spec2Model ----
(***************************************************************************)
(* Real-time presence and delivery layer of the locolive backend: the      *)
(* per-process connection Hub (internal/realtime hub), the Session pumps   *)
(* (internal/realtime/client.go), the Redis-stream router, and the HTTP    *)
(* handlers that feed it (sendMessage, updateLocation, getFeed).           *)
(***************************************************************************)
EXTENDS Integers, Sequences, FiniteSets, TLC

\* ------------------------------------------------------------------ bounds

\* Number of entries XADD may generate in one behaviour.
MaxAppends == 3

\* Number of rows sendMessage may store in one behaviour.
MaxMessages == 1

\* Number of rows updateLocation may store in one behaviour.
MaxLocations == 1

\* Number of stories CreateStory may store in one behaviour.
MaxStories == 1

\* Last minute of the wall clock.
MaxTime == 6

\* Last instant, in seconds, the connection clock reaches in one behaviour.
MaxClock == 120

\* Pong wait: the read deadline is set this many seconds ahead.
PongWait == 60

\* Capacity of a Session's outbound queue (Client.Send), scaled down.
SendCap == 2

\* MaxLen of the XADD call (100000 in the source), scaled down so that the
\* approximate trim can evict records within MaxAppends appends.
StreamMaxLen == 2

\* Count of the XREAD call.
XReadCount == 10

\* lastID := "$": the cursor value that means "the current end of the stream".
Dollar == 0

\* Value of tail[p].start before the loop's first XREAD.
NotStarted == -1

Procs == {"p1", "p2"}

Users == {"A", "B"}

Clients == {"c1", "c2"}

\* The process a Session's connection was accepted by, and the user it
\* authenticated as (fields Hub and UserID of Client).
ClientHub(c) == "p2"

ClientUserID(c) == "B"

ClientUsername(c) == "userB"

\* The Sessions are interchangeable (same Hub, same user), so connections are
\* accepted in the order c1, c2 without loss of behaviours.
Earlier(c) == IF c = "c2" THEN {"c1"} ELSE {}

\* The mutually connected pairs sendMessage accepts (checkConnection).
Senders == {"A"}

Receivers == {"B"}

\* The receiver_id values the Sessions' typing frames carry.
TypingReceivers == {"B"}

VARIABLES
    stream,      \* entries of locolive:stream:routing still retained, oldest first
    lastGenID,   \* id of the last entry XADD generated (0: none yet)
    clients,     \* clients[p]: Hub.clients, user id -> set of Sessions
    hubPc,       \* hubPc[p]: position of Hub.Run: "select", <<"register", c>>, <<"unregister", c>>
    tail,        \* tail[p]: listenRedisStream: [pc, lastID, batch], the id the
                 \* blocked XREAD resolved its cursor to (since, 0 outside the
                 \* call and its backoff) and the last generated id when the
                 \* loop issued its first XREAD (start, NotStarted before that)
    sess,        \* sess[c]: [handler, readPump, writePump, connOpen]
    Send,        \* Send[c]: content of the channel Client.Send
    sendClosed,  \* sendClosed[c]: close(client.Send) has run
    wire,        \* wire[c]: text frames WritePump wrote to the connection, in order
    delivered,   \* delivered[p]: ids of the records handed to broadcastToLocal, in order
    closedBy,    \* closedBy[c]: the path that closed Client.Send ("none", "unregister",
                 \* "full") and, for "full", the id of the entry being delivered
    sm,          \* sendMessage request in flight: [pc, msg]
    messages,    \* rows of the messages table (ids)
    smResp,      \* status code of sendMessage's last answer (0: none yet)
    owed,        \* <<id, c>>: entry id was published by sendMessage while Session c
                 \* of the receiver was registered, with room in its queue, in
                 \* another process whose loop had started reading
    locations,   \* rows of the locations table, in insertion order
    activity,    \* activity[u]: number of store.UpdateUserActivity writes for u
    locsvc,      \* locsvc[u]: the point the location service holds for u
    ghost,       \* ghost[u]: [IsGhostMode, Expired] of the users row
    banned,      \* banned[u]: is_shadow_banned of the users row
    ulResp,      \* the last updateLocation exchange: the answer given, the answer
                 \* the same request gets under the opposite verdict, the
                 \* request's user, verdict and CreateLocation outcome, whether
                 \* the Monitor was consulted (checked), whether the user was in
                 \* ghost mode, the verdict's ShouldBan and the outcome of
                 \* store.BanUser, and a bit n that every request flips
    now,         \* wall clock, in minutes
    cache,       \* cache[k]: the Redis entry under key k: [present, val, exp]
    stories,     \* rows of the stories table
    gf,          \* getFeed request in flight
    sw,          \* story write (CreateStory, DeleteStory) in flight
    feedResp,    \* the last getFeed answer: [status, xcache, body]
    lastSet,     \* lastSet[k]: the payload last stored under k, when, and whether
                 \* it has been invalidated since
    sinceWrite,  \* sinceWrite[k]: a story write in bucket k has completed and no
                 \* getFeed has looked k up since
    mainPc,      \* position of main: "serving", "grace" (signal received, waiting
                 \* out the 5 s), "stopped" ("Server stopped" logged, main returns)
    rlock,       \* rlock[p]: the IsUserOnline calls holding h.mutex.RLock()
    clock,       \* the time, in seconds, the connections' deadlines are read against
    readDeadline,\* readDeadline[c]: the read deadline set on c.Conn
    lastFrame,   \* lastFrame[c]: when c.Conn last received a frame (or was opened)
    ad,          \* the admin DeleteStory in flight: its position, the keys its
                 \* Keys call returned, and what the last call returned
    prov         \* whose user id the store query ran with: for the getFeed in
                 \* flight (req), for the payload last stored under each key
                 \* (set) and for the payload last answered (resp)

rtVars == <<stream, lastGenID, clients, hubPc, tail, sess, Send, sendClosed, wire,
            delivered, closedBy>>

smVars == <<sm, messages, smResp, owed>>

locVars == <<locations, activity, locsvc, ghost, banned, ulResp>>

feedVars == <<now, cache, stories, gf, sw, feedResp, lastSet, sinceWrite>>

httpVars == <<locVars, feedVars>>

readVars == <<clock, readDeadline, lastFrame>>

adminVars == <<ad>>

viewVars == <<prov>>

mainVars == <<mainPc, rlock, readVars, adminVars, viewVars>>

vars == <<rtVars, smVars, httpVars, mainVars>>

\* ------------------------------------------------------------ data shapes

\* A parse that takes any string for the id of user B.
UUIDParseLenient(s) ==
    IF \E u \in Users : <<"uuid", u>> = s
    THEN [ok |-> TRUE, id |-> CHOOSE u \in Users : <<"uuid", u>> = s]
    ELSE [ok |-> TRUE, id |-> "B"]

\* uuid.UUID.String and uuid.Parse on the user ids of the model: the string
\* form is a different value from the id, and only string forms of ids parse.
UUIDString(u) == <<"uuid", u>>

UUIDParse(s) ==
    IF \E u \in Users : UUIDString(u) = s
    THEN [ok |-> TRUE, id |-> CHOOSE u \in Users : UUIDString(u) = s]
    ELSE [ok |-> FALSE, id |-> "nil"]

\* json.Marshal of a realtime.WSMessage: the struct's fields under their json tags.
MarshalWSMessage(ws) ==
    [type |-> ws.Type, payload |-> ws.Payload, sender_id |-> ws.SenderID,
     created_at |-> ws.CreatedAt]

\* The row store.CreateMessage returns for a 1:1 message.
MessageRow(n, a, b) == [id |-> n, sender_id |-> a, receiver_id |-> b, created_at |-> n]

\* The WSMessage sendMessage builds from the stored row.
NewMessageWS(msg, a) ==
    [Type |-> "new_message", Payload |-> msg, SenderID |-> a, CreatedAt |-> msg.created_at]

\* The Values map of the XADD call.
StreamValues(userID, message) ==
    [target_user_id |-> UUIDString(userID), payload |-> message]

\* h.clients[u]: the comma-ok lookup of the outer map. An absent key reads as
\* [ok |-> FALSE, m |-> {}]; a present key holds the inner map's key set.
NoEntry == [ok |-> FALSE, m |-> {}]

Registered(p) == UNION {clients[p][u].m : u \in Users}

Max(a, b) == IF a >= b THEN a ELSE b

Min(a, b) == IF a <= b THEN a ELSE b

\* The coordinates requests carry: P1 = (10.0, 10.0), P2 = (10.01, 10.01),
\* P3 = (10.0, 20.0); P0 is outside the range the request binding accepts.
Points == {"P1", "P2", "P3"}

BadPoint == "P0"

NoPoint == "none"

\* geohash.Encode at its default 12 characters.
GeohashEncode(pt) ==
    CASE pt = "P1" -> <<"s", "1", "z", "0", "g", "s", "3", "y", "0", "z", "h", "7">>
      [] pt = "P2" -> <<"s", "1", "z", "0", "g", "y", "3", "0", "3", "z", "h", "z">>
      [] pt = "P3" -> <<"s", "3", "y", "0", "z", "h", "7", "w", "1", "z", "0", "g">>

\* if len(hash) > n { hash = hash[:n] }
Truncate(hash, n) == IF Len(hash) > n THEN SubSeq(hash, 1, n) ELSE hash

\* locationPrecision, the feed bucket length, and feedCacheTTL in minutes.
LocationPrecision == 7

FeedPrecision == 5

FeedCacheTTL == 5

\* cacheKey := "feed:" + geohash
FeedKey(geohash) == <<"feed:">> \o geohash

\* The keys getFeed can look up.
FeedKeys == {FeedKey(Truncate(GeohashEncode(pt), FeedPrecision)) : pt \in Points}

\* The empty string: what redis.Get yields with redis.Nil, and a payload
\* that is no JSON document.
EmptyData == [stories |-> {}, count |-> -1, message |-> "", search_radius |-> 0]

NoBody == EmptyData

\* An absent key, and the expiry of a key stored without one.
NoExpiry == -1

NoValue == [present |-> FALSE, val |-> EmptyData, exp |-> NoExpiry]

\* The state of ulResp before any updateLocation request.
NoExchange ==
    [status |-> 0, body |-> "none", alt |-> [status |-> 0, body |-> "none"],
     user |-> "A", allowed |-> TRUE, created |-> FALSE, checked |-> FALSE,
     wasGhost |-> FALSE, shouldBan |-> FALSE, banOk |-> FALSE, n |-> 0]

\* ------------------------------------------------------------------- Init

Init ==
    /\ stream = <<>>
    /\ lastGenID = 0
    /\ clients = [p \in Procs |-> [u \in Users |-> NoEntry]]
    /\ hubPc = [p \in Procs |-> <<"select", "none">>]
    /\ tail = [p \in Procs |-> [pc |-> "call", lastID |-> Dollar, since |-> 0,
                                batch |-> <<>>, start |-> NotStarted]]
    /\ sess = [c \in Clients |-> [handler |-> "new", readPump |-> "idle",
                                  writePump |-> "idle", connOpen |-> FALSE]]
    /\ Send = [c \in Clients |-> <<>>]
    /\ sendClosed = [c \in Clients |-> FALSE]
    /\ wire = [c \in Clients |-> <<>>]
    /\ delivered = [p \in Procs |-> <<>>]
    /\ closedBy = [c \in Clients |-> [path |-> "none", seq |-> 0]]
    /\ sm = [pc |-> "idle", msg |-> MessageRow(0, "A", "B")]
    /\ messages = {}
    /\ smResp = 0
    /\ owed = {}
    /\ locations = <<>>
    /\ activity = [u \in Users |-> 0]
    /\ locsvc = [u \in Users |-> NoPoint]
    /\ ghost = [u \in Users |-> [IsGhostMode |-> FALSE, Expired |-> FALSE]]
    /\ banned = [u \in Users |-> FALSE]
    /\ ulResp = NoExchange
    /\ now = 0
    /\ cache = [k \in FeedKeys |-> NoValue]
    /\ stories = {}
    /\ gf = [pc |-> "idle", pt |-> "P1", body |-> NoBody]
    /\ sw = [pc |-> "idle", geohash |-> <<>>, created |-> 0,
             val |-> [Allowed |-> TRUE, ShouldBan |-> FALSE]]
    /\ feedResp = [status |-> 0, xcache |-> "none", body |-> NoBody]
    /\ lastSet = [k \in FeedKeys |-> [val |-> NoBody, at |-> 0, valid |-> FALSE]]
    /\ sinceWrite = [k \in FeedKeys |-> FALSE]
    /\ mainPc = "serving"
    /\ rlock = [p \in Procs |-> {}]
    /\ clock = 0
    /\ ad = [pc |-> "idle", keys |-> {}, resp |-> "none"]
    /\ prov = [req |-> "A", set |-> [k \in FeedKeys |-> "A"],
               resp |-> [user |-> "A", by |-> "A"]]
    /\ readDeadline = [c \in Clients |-> 0]
    /\ lastFrame = [c \in Clients |-> 0]

\* ------------------------------------------------- the shared stream (Redis)

\* The entries XADD leaves after appending under MAXLEN ~ StreamMaxLen: the
\* approximate trim may drop any number of the oldest entries as long as at
\* least StreamMaxLen remain.
Trimmed(s, k) == SubSeq(s, k + 1, Len(s))

\* A process whose XREAD is blocked is served by the XADD that appends the
\* next entry: its call returns that entry alone.
Served(t, entry) ==
    IF t.pc = "blocked"
    THEN [t EXCEPT !.pc = "process", !.since = 0, !.batch = <<entry>>]
    ELSE t

\* Hub.SendToUser: one XADD; a failed XADD is logged and nothing is returned.
SendToUser(userID, message) ==
    /\ lastGenID < MaxAppends
    /\ \/ \E k \in 0..Max(0, Len(stream) + 1 - StreamMaxLen) :
            LET id    == lastGenID + 1
                entry == [id |-> id, values |-> StreamValues(userID, message)]
            IN /\ lastGenID' = id
               /\ stream' = Trimmed(Append(stream, entry), k)
               /\ tail' = [p \in Procs |-> Served(tail[p], entry)]
       \/ UNCHANGED <<stream, lastGenID, tail>>

\* The Values of records the loop does not accept: no target_user_id, no
\* payload, a target_user_id that uuid.Parse refuses.
MalformedValues ==
    { [payload |-> "x"],
      [target_user_id |-> UUIDString("B")],
      [target_user_id |-> <<"bad", "B">>, payload |-> "x"] }

\* Another writer of the stream appends a record with the given Values.
XAddForeign(values) ==
    /\ lastGenID < MaxAppends
    /\ \E k \in 0..Max(0, Len(stream) + 1 - StreamMaxLen) :
          LET id    == lastGenID + 1
              entry == [id |-> id, values |-> values]
          IN /\ lastGenID' = id
             /\ stream' = Trimmed(Append(stream, entry), k)
             /\ tail' = [p \in Procs |-> Served(tail[p], entry)]
    /\ UNCHANGED <<clients, hubPc, sess, Send, sendClosed, wire, delivered,
                   closedBy, smVars, mainVars, httpVars>>

\* The entries an XREAD returns at once: those after the id the call resolved
\* its cursor to, oldest first, at most XReadCount of them.
After(since) == SelectSeq(stream, LAMBDA r : r.id > since)

XReadResult(since) ==
    LET a == After(since) IN SubSeq(a, 1, Min(Len(a), XReadCount))

\* ------------------------------------------------ Session (Client) lifecycle

\* The websocket handler: upgrades the connection, builds the Client with a
\* Send channel of capacity SendCap, hands it to the Hub on the unbuffered
\* Register channel (the send returns when Hub.Run receives it) and starts
\* the two pumps; ReadPump begins with SetReadDeadline(now + 60 s).
ServeWS(c) ==
    /\ sess[c].handler = "new"
    /\ \A d \in Earlier(c) : sess[d].handler # "new"
    /\ hubPc[ClientHub(c)] = <<"select", "none">>
    /\ hubPc' = [hubPc EXCEPT ![ClientHub(c)] = <<"register", c>>]
    /\ sess' = [sess EXCEPT ![c] = [handler |-> "served", readPump |-> "run",
                                    writePump |-> "run", connOpen |-> TRUE]]
    /\ readDeadline' = [readDeadline EXCEPT ![c] = clock + PongWait]
    /\ lastFrame' = [lastFrame EXCEPT ![c] = clock]
    /\ UNCHANGED <<stream, lastGenID, clients, tail, Send, sendClosed, wire,
                   delivered, closedBy, smVars, mainPc, adminVars, viewVars, rlock, clock, httpVars>>

\* ReadMessage returns an error (read error, deadline, remote close) and
\* ReadPump breaks out of its loop; its deferred function has yet to run.
ReadPumpBreak(c) ==
    /\ sess[c].readPump = "run"
    /\ sess' = [sess EXCEPT ![c].readPump = "exiting"]
    /\ UNCHANGED <<stream, lastGenID, clients, hubPc, tail, Send, sendClosed, wire,
                   delivered, closedBy, smVars, mainVars, httpVars>>

\* ReadPump leaves its loop on a read error and its deferred function sends
\* the Client on the unbuffered Unregister channel: the send returns as soon
\* as Hub.Run has received the value. The break is a step of its own
\* (ReadPumpBreak) where the wait for Hub.Run matters.
ReadPumpExit(c) ==
    /\ sess[c].readPump \in {"run", "exiting"}
    /\ hubPc[ClientHub(c)] = <<"select", "none">>
    /\ hubPc' = [hubPc EXCEPT ![ClientHub(c)] = <<"unregister", c>>]
    /\ sess' = [sess EXCEPT ![c].readPump = "closing"]
    /\ UNCHANGED <<stream, lastGenID, clients, tail, Send, sendClosed, wire,
                   delivered, closedBy, smVars, mainVars, httpVars>>

\* ReadPump's deferred c.Conn.Close(), after the send on Unregister returned.
ReadPumpClose(c) ==
    /\ sess[c].readPump = "closing"
    /\ sess' = [sess EXCEPT ![c].readPump = "done", ![c].connOpen = FALSE]
    /\ UNCHANGED <<stream, lastGenID, clients, hubPc, tail, Send, sendClosed, wire,
                   delivered, closedBy, smVars, mainVars, httpVars>>

\* WritePump's deferred ticker.Stop(); c.Conn.Close().
WritePumpReturn(c) ==
    sess' = [sess EXCEPT ![c].writePump = "done", ![c].connOpen = FALSE]

\* WritePump, case message, ok := <-c.Send with a message: the frame is
\* written (NextWriter, Write, Close) or the write fails and the pump returns.
\* A write on a connection that is already closed always fails.
WritePumpMessage(c) ==
    /\ sess[c].writePump = "run"
    /\ Send[c] # <<>>
    /\ Send' = [Send EXCEPT ![c] = Tail(Send[c])]
    /\ \/ /\ sess[c].connOpen
          /\ wire' = [wire EXCEPT ![c] = Append(wire[c], Head(Send[c]))]
          /\ UNCHANGED sess
       \/ /\ WritePumpReturn(c)
          /\ UNCHANGED wire
    /\ UNCHANGED <<stream, lastGenID, clients, hubPc, tail, sendClosed, delivered,
                   closedBy, smVars, mainVars, httpVars>>

\* WritePump, case message, ok := <-c.Send with !ok (channel closed and
\* drained): a close frame is attempted and the pump returns.
WritePumpClosed(c) ==
    /\ sess[c].writePump = "run"
    /\ Send[c] = <<>>
    /\ sendClosed[c]
    /\ WritePumpReturn(c)
    /\ UNCHANGED <<stream, lastGenID, clients, hubPc, tail, Send, sendClosed, wire,
                   delivered, closedBy, smVars, mainVars, httpVars>>

\* WritePump, case <-ticker.C: a ping that fails makes the pump return; a
\* ping that succeeds changes nothing.
WritePumpPing(c) ==
    /\ sess[c].writePump = "run"
    /\ \/ /\ sess[c].connOpen
          /\ UNCHANGED sess
       \/ WritePumpReturn(c)
    /\ UNCHANGED <<stream, lastGenID, clients, hubPc, tail, Send, sendClosed, wire,
                   delivered, closedBy, smVars, mainVars, httpVars>>

\* ------------------------------------------------------------------ Hub.Run

\* case client := <-h.Register, under h.mutex.Lock().
HubRegister(p) ==
    /\ hubPc[p][1] = "register"
    /\ rlock[p] = {}
    /\ LET c == hubPc[p][2]
           u == ClientUserID(c)
       IN clients' = [clients EXCEPT ![p][u] = [ok |-> TRUE, m |-> clients[p][u].m \cup {c}]]
    /\ hubPc' = [hubPc EXCEPT ![p] = <<"select", "none">>]
    /\ UNCHANGED <<stream, lastGenID, tail, sess, Send, sendClosed, wire, delivered,
                   closedBy, smVars, mainVars, httpVars>>

\* The registry after Hub.Run's unregister case removed c: the Session leaves
\* its user's inner map and an inner map left empty is deleted with its key.
UnregisterDelete(reg, c) ==
    LET u    == ClientUserID(c)
        rest == reg[u].m \ {c}
    IN [reg EXCEPT ![u] = IF rest = {} THEN NoEntry ELSE [ok |-> TRUE, m |-> rest]]

\* An unregister case that closes the Send channel whether or not the
\* Session is still in the registry.
HubUnregisterAlways(p) ==
    /\ hubPc[p][1] = "unregister"
    /\ rlock[p] = {}
    /\ LET c == hubPc[p][2]
           u == ClientUserID(c)
       IN /\ clients' = [clients EXCEPT ![p] =
                           IF clients[p][u].ok /\ c \in clients[p][u].m
                           THEN UnregisterDelete(clients[p], c) ELSE clients[p]]
          /\ sendClosed' = [sendClosed EXCEPT ![c] = TRUE]
          /\ closedBy' = [closedBy EXCEPT ![c] = [path |-> "unregister", seq |-> 0]]
    /\ hubPc' = [hubPc EXCEPT ![p] = <<"select", "none">>]
    /\ UNCHANGED <<stream, lastGenID, tail, sess, Send, wire, delivered, smVars, mainVars, httpVars>>

\* An unregister case that removes the Session and leaves its Send channel
\* open.
HubUnregisterNoClose(p) ==
    /\ hubPc[p][1] = "unregister"
    /\ rlock[p] = {}
    /\ LET c == hubPc[p][2]
           u == ClientUserID(c)
       IN IF clients[p][u].ok /\ c \in clients[p][u].m
          THEN clients' = [clients EXCEPT ![p] = UnregisterDelete(clients[p], c)]
          ELSE UNCHANGED clients
    /\ hubPc' = [hubPc EXCEPT ![p] = <<"select", "none">>]
    /\ UNCHANGED <<stream, lastGenID, tail, sess, Send, sendClosed, closedBy, wire,
                   delivered, smVars, mainVars, httpVars>>

\* case client := <-h.Unregister, under h.mutex.Lock(): only a Session still
\* in the registry is removed and has its Send channel closed.
HubUnregister(p) ==
    /\ hubPc[p][1] = "unregister"
    /\ rlock[p] = {}
    /\ LET c == hubPc[p][2]
           u == ClientUserID(c)
       IN IF clients[p][u].ok /\ c \in clients[p][u].m
          THEN /\ clients' = [clients EXCEPT ![p] = UnregisterDelete(clients[p], c)]
               /\ sendClosed' = [sendClosed EXCEPT ![c] = TRUE]
               /\ closedBy' = [closedBy EXCEPT ![c] = [path |-> "unregister", seq |-> 0]]
          ELSE UNCHANGED <<clients, sendClosed, closedBy>>
    /\ hubPc' = [hubPc EXCEPT ![p] = <<"select", "none">>]
    /\ UNCHANGED <<stream, lastGenID, tail, sess, Send, wire, delivered, smVars, mainVars, httpVars>>

\* ------------------------------------------------------------ IsUserOnline

\* The goroutines, other than the Hub's own, that call IsUserOnline.
Callers == {"h1"}

\* IsUserOnline's result on the registry as it is: ok && len(clients) > 0.
IsUserOnline(p, userID) == clients[p][userID].ok /\ clients[p][userID].m # {}

\* IsUserOnline takes h.mutex.RLock(); the Hub's Lock sections are single
\* steps, so no writer holds the mutex between two steps.
IsUserOnlineRLock(g, p) ==
    /\ g \notin rlock[p]
    /\ rlock' = [rlock EXCEPT ![p] = @ \cup {g}]
    /\ UNCHANGED <<rtVars, smVars, httpVars, mainPc, adminVars, viewVars, readVars>>

\* IsUserOnline reads the registry and returns; the deferred RUnlock runs.
IsUserOnlineReturn(g, p) ==
    /\ g \in rlock[p]
    /\ rlock' = [rlock EXCEPT ![p] = @ \ {g}]
    /\ UNCHANGED <<rtVars, smVars, httpVars, mainPc, adminVars, viewVars, readVars>>

\* -------------------------------------------------------- broadcastToLocal

\* A select that takes the default case only when the queue already holds
\* more than its capacity.
QueueFullOffByOne(c) == Len(Send[c]) > SendCap

\* The default case of the select in broadcastToLocal is taken when the
\* buffered channel client.Send has no free slot.
QueueFull(c) == Len(Send[c]) >= SendCap

\* A lookup that ranges over every Session of the process.
LocalSessionsAll(p, userID) == UNION {clients[p][u].m : u \in Users}

\* The Sessions broadcastToLocal ranges over: the inner map of userID.
LocalSessions(p, userID) == IF clients[p][userID].ok THEN clients[p][userID].m ELSE {}

\* The Sessions that take the default case: close(client.Send) and
\* delete(clients, client), the user's key staying in the outer map.
Dropped(p, userID) == {c \in LocalSessions(p, userID) : QueueFull(c)}

\* A loop that returns at the first full queue instead of going on.
EnqueuedNoneAfterFull(p, userID) ==
    IF Dropped(p, userID) # {} THEN {}
    ELSE {c \in LocalSessions(p, userID) : ~QueueFull(c)}

\* The Sessions that take the case client.Send <- message.
Enqueued(p, userID) == {c \in LocalSessions(p, userID) : ~QueueFull(c)}

\* A queue that puts the new value in front of those already queued.
ChanSendFront(q, m) == <<m>> \o q

\* A send on a buffered channel puts the value behind those already queued.
ChanSend(q, m) == Append(q, m)

\* broadcastToLocal(userID, message), the whole call under h.mutex.RLock():
\* every Session of the inner map is visited once, in any order.
broadcastToLocal(p, userID, message) ==
    /\ Send' = [c \in Clients |->
                 IF c \in Enqueued(p, userID) THEN ChanSend(Send[c], message) ELSE Send[c]]
    /\ sendClosed' = [c \in Clients |-> sendClosed[c] \/ c \in Dropped(p, userID)]
    /\ closedBy' = [c \in Clients |->
                     IF c \in Dropped(p, userID)
                     THEN [path |-> "full", seq |-> message.seq] ELSE closedBy[c]]
    /\ clients' = [clients EXCEPT ![p][userID] =
                     IF clients[p][userID].ok
                     THEN [ok |-> TRUE, m |-> clients[p][userID].m \ Dropped(p, userID)]
                     ELSE clients[p][userID]]

\* ------------------------------------------------------------- sendMessage

\* sendMessage up to store.CreateMessage: a store failure answers 500 and
\* publishes nothing; success stores the row and goes on to publish.
SendMessageCreate(a, b) ==
    /\ sm.pc = "idle"
    /\ lastGenID + 2 <= MaxAppends
    /\ Cardinality(messages) < MaxMessages
    /\ \/ LET msg == MessageRow(Cardinality(messages) + 1, a, b)
          IN /\ messages' = messages \cup {msg}
             /\ sm' = [pc |-> "notify", msg |-> msg]
             /\ UNCHANGED smResp
       \/ /\ smResp' = 500
          /\ UNCHANGED <<messages, sm>>
    /\ UNCHANGED <<rtVars, owed, httpVars, mainVars>>

\* The process whose HTTP handler runs sendMessage.
SendMessageProc == "p1"

\* The deliveries a publish of entry id to userID promises: to each Session
\* of userID registered in another process, with room in its queue, whose
\* process's loop has started reading (none when the XADD failed).
Promised(userID, id) ==
    IF id = lastGenID THEN {}
    ELSE {<<id, c>> : c \in {d \in Clients :
                                /\ ClientUserID(d) = userID
                                /\ ClientHub(d) # SendMessageProc
                                /\ d \in Registered(ClientHub(d))
                                /\ ~QueueFull(d)
                                /\ tail[ClientHub(d)].start # NotStarted}}

\* sendMessage: publish new_message to the receiver.
SendMessageNotify ==
    /\ sm.pc = "notify"
    /\ SendToUser(sm.msg.receiver_id,
                  MarshalWSMessage(NewMessageWS(sm.msg, sm.msg.sender_id)))
    /\ sm' = [sm EXCEPT !.pc = "echo"]
    /\ owed' = owed \cup Promised(sm.msg.receiver_id, lastGenID')
    /\ UNCHANGED <<clients, hubPc, sess, Send, sendClosed, wire, delivered,
                   closedBy, messages, smResp, httpVars, mainVars>>

\* sendMessage: echo the same new_message to the sender and answer 201.
SendMessageEcho ==
    /\ sm.pc = "echo"
    /\ SendToUser(sm.msg.sender_id,
                  MarshalWSMessage(NewMessageWS(sm.msg, sm.msg.sender_id)))
    /\ sm' = [sm EXCEPT !.pc = "idle"]
    /\ smResp' = 201
    /\ UNCHANGED <<clients, hubPc, sess, Send, sendClosed, wire, delivered,
                   closedBy, messages, owed, httpVars, mainVars>>

\* ------------------------------------------------------- listenRedisStream

\* A cursor whose "$" means the beginning of the stream.
ResolveFromStart(lastID) == lastID

\* A cursor that is read inclusively: the entry at lastID is returned again.
ResolveInclusive(lastID) == IF lastID = Dollar THEN lastGenID ELSE lastID - 1

\* The id an XREAD call starts after: "$" is resolved, by the server and at
\* the time of the call, to the id of the last entry generated so far.
Resolve(lastID) == IF lastID = Dollar THEN lastGenID ELSE lastID

\* The loop issues h.redis.XRead with its cursor, at the top of the loop or
\* when its backoff is over. Entries after the resolved id are returned at
\* once; with none the call blocks (Block: 2 s).
XReadCall(p) ==
    /\ tail[p].pc \in {"call", "backoff"}
    /\ LET since == Resolve(tail[p].lastID)
           start == IF tail[p].start = NotStarted THEN lastGenID ELSE tail[p].start
       IN tail' = [tail EXCEPT ![p] =
                     IF After(since) # <<>>
                     THEN [@ EXCEPT !.pc = "process", !.since = 0,
                                    !.batch = XReadResult(since), !.start = start]
                     ELSE [@ EXCEPT !.pc = "blocked", !.since = since, !.start = start]]
    /\ UNCHANGED <<stream, lastGenID, clients, hubPc, sess, Send, sendClosed, wire,
                   delivered, closedBy, smVars, mainVars, httpVars>>

\* XRead returns redis.Nil after blocking 2 s with nothing new: continue.
XReadNil(p) ==
    /\ tail[p].pc = "blocked"
    /\ tail' = [tail EXCEPT ![p].pc = "call", ![p].since = 0]
    /\ UNCHANGED <<stream, lastGenID, clients, hubPc, sess, Send, sendClosed, wire,
                   delivered, closedBy, smVars, mainVars, httpVars>>

\* XRead fails (the log is unreachable): the error is logged and the loop
\* sleeps the 5 s backoff, after which it continues with the next XRead.
XReadError(p) ==
    /\ tail[p].pc = "blocked"
    /\ tail' = [tail EXCEPT ![p].pc = "backoff"]
    /\ UNCHANGED <<stream, lastGenID, clients, hubPc, sess, Send, sendClosed, wire,
                   delivered, closedBy, smVars, mainVars, httpVars>>

\* The string-typed field f of an entry's Values, comma-ok.
StringField(values, f) == f \in DOMAIN values

\* The message broadcastToLocal is given for an entry: []byte(payload). The
\* field seq is the id of the entry the bytes came from; it is not part of
\* the bytes and only lets the properties below tell deliveries apart.
MessageOf(msg) == [seq |-> msg.id, data |-> msg.values.payload]

\* One iteration of the loop over stream.Messages: the cursor moves to the
\* entry, a malformed entry is skipped, a well-formed one is broadcast.
ProcessMessage(p) ==
    /\ tail[p].pc = "process"
    /\ LET msg  == Head(tail[p].batch)
           rest == Tail(tail[p].batch)
           wellFormed == /\ StringField(msg.values, "target_user_id")
                         /\ StringField(msg.values, "payload")
                         /\ UUIDParse(msg.values.target_user_id).ok
       IN /\ tail' = [tail EXCEPT ![p].lastID = msg.id,
                                  ![p].batch = rest,
                                  ![p].pc = IF rest = <<>> THEN "call" ELSE "process"]
          /\ IF wellFormed
             THEN /\ broadcastToLocal(p, UUIDParse(msg.values.target_user_id).id,
                                      MessageOf(msg))
                  /\ delivered' = [delivered EXCEPT ![p] = Append(delivered[p], msg.id)]
             ELSE UNCHANGED <<clients, Send, sendClosed, closedBy, delivered>>
    /\ UNCHANGED <<stream, lastGenID, hubPc, sess, wire, smVars, mainVars, httpVars>>

\* A typing indicator that does not name its sender.
TypingWSAnonymous(c) ==
    [Type |-> "typing",
     Payload |-> [user_id |-> "nil", username |-> ""],
     SenderID |-> "nil", CreatedAt |-> 0]

\* ReadPump receives a frame of type typing for receiver r and republishes
\* it through SendToUser; the Session stays in its loop.
TypingWS(c) ==
    [Type |-> "typing",
     Payload |-> [user_id |-> ClientUserID(c), username |-> ClientUsername(c)],
     SenderID |-> "nil", CreatedAt |-> 0]

ReadPumpTyping(c, r) ==
    /\ sess[c].readPump = "run"
    /\ clock < readDeadline[c]
    /\ lastFrame' = [lastFrame EXCEPT ![c] = clock]
    /\ SendToUser(r, MarshalWSMessage(TypingWS(c)))
    /\ UNCHANGED <<clients, hubPc, sess, Send, sendClosed, wire, delivered,
                   closedBy, smVars, mainPc, adminVars, viewVars, rlock, clock, readDeadline, httpVars>>

\* ------------------------------------------------- ReadPump's read deadline

\* The seconds that may pass between two events on a connection.
TickSteps == {20, 40}

\* Time passes. ReadMessage fails as soon as the deadline is reached, so the
\* clock does not run past the deadline of a ReadPump still in its loop.
ClockTick(d) ==
    /\ clock + d <= MaxClock
    /\ \A c \in Clients : sess[c].readPump = "run" => clock < readDeadline[c]
    /\ clock' = clock + d
    /\ UNCHANGED <<rtVars, smVars, httpVars, mainPc, adminVars, viewVars, rlock, readDeadline, lastFrame>>

\* ReadMessage returns a data frame that is no typing frame (another type, or
\* not JSON): nothing is published, the loop goes on. The read deadline is
\* left as it was.
ReadPumpOther(c) ==
    /\ sess[c].readPump = "run"
    /\ clock < readDeadline[c]
    /\ lastFrame' = [lastFrame EXCEPT ![c] = clock]
    /\ UNCHANGED <<rtVars, smVars, httpVars, mainPc, adminVars, viewVars, rlock, clock, readDeadline>>

\* A pong arrives: the pong handler sets the read deadline PongWait ahead.
ReadPumpPong(c) ==
    /\ sess[c].readPump = "run"
    /\ clock < readDeadline[c]
    /\ readDeadline' = [readDeadline EXCEPT ![c] = clock + PongWait]
    /\ lastFrame' = [lastFrame EXCEPT ![c] = clock]
    /\ UNCHANGED <<rtVars, smVars, httpVars, mainPc, adminVars, viewVars, rlock, clock>>

\* The read deadline is reached: ReadMessage returns a timeout error and
\* ReadPump leaves its loop.
ReadPumpTimeout(c) ==
    /\ clock >= readDeadline[c]
    /\ ReadPumpExit(c)

\* ---------------------------------------------------------- updateLocation

\* The results safety.ValidateUserMovement can return.
Verdicts ==
    {[Allowed |-> TRUE, ShouldBan |-> FALSE],
     [Allowed |-> FALSE, ShouldBan |-> FALSE],
     [Allowed |-> FALSE, ShouldBan |-> TRUE]}

\* Which of the handler's calls to the store and the location service
\* succeed: GetUserByID, BanUser, CreateLocation, UpdateUserActivity and
\* location.UpdateUserLocation.
StoreOutcomes ==
    [user : BOOLEAN, ban : BOOLEAN, create : BOOLEAN, activity : BOOLEAN,
     locsvc : BOOLEAN]

Answer(status, body) == [status |-> status, body |-> body]

\* A handler that drops a rejected sample only when the Monitor escalates.
RejectsOnlyEscalated(val) == ~val.Allowed /\ val.ShouldBan

\* if !val.Allowed: the sample is rejected.
Rejects(val) == ~val.Allowed

\* A handler that tells the client its sample was rejected.
RejectedAnswerVisible == Answer(403, "rejected")

\* The answer to a rejected sample: StatusOK, {"status": "updated"}.
RejectedAnswer == Answer(200, "updated")

\* A handler that never restricts the account.
BanUserSkipped(was, val, io) == was

\* if val.ShouldBan: store.BanUser sets is_shadow_banned; its error is dropped.
BanUser(was, val, io) == was \/ (val.ShouldBan /\ io.ban)

\* updateLocation from the request binding to its answer, as the values it
\* leaves: the answer and the rows and fields it wrote.
UpdateLocationRun(u, pt, val, io) ==
    LET same == [resp |-> Answer(0, "none"), ghost |-> ghost[u], banned |-> banned[u],
                 row |-> <<>>, activity |-> activity[u], locsvc |-> locsvc[u],
                 checked |-> FALSE]
        isGhost == io.user /\ ghost[u].IsGhostMode
        ghostOff == [IsGhostMode |-> FALSE, Expired |-> FALSE]
        hash == Truncate(GeohashEncode(pt), LocationPrecision)
    IN IF pt \notin Points
       THEN [same EXCEPT !.resp = Answer(400, "error")]
       ELSE IF isGhost /\ ~ghost[u].Expired
       THEN [same EXCEPT !.resp = Answer(200, "ghost")]
       ELSE LET g == IF isGhost THEN ghostOff ELSE ghost[u]
            IN IF Rejects(val)
               THEN [same EXCEPT !.resp = RejectedAnswer,
                                 !.ghost = g,
                                 !.banned = BanUser(banned[u], val, io),
                                 !.checked = TRUE]
               ELSE IF ~io.create
               THEN [same EXCEPT !.resp = Answer(500, "error"), !.ghost = g,
                                 !.checked = TRUE]
               ELSE [resp |-> Answer(200, "updated"),
                     ghost |-> g,
                     banned |-> banned[u],
                     row |-> <<[user_id |-> u, geohash |-> hash, pt |-> pt]>>,
                     activity |-> IF io.activity THEN activity[u] + 1 ELSE activity[u],
                     locsvc |-> IF io.locsvc THEN pt ELSE locsvc[u],
                     checked |-> TRUE]

\* The verdict that differs from val in Allowed only.
Opposite(val) == [val EXCEPT !.Allowed = ~val.Allowed]

updateLocation(u, pt, val, io) ==
    /\ LET r == UpdateLocationRun(u, pt, val, io)
           o == UpdateLocationRun(u, pt, Opposite(val), io)
       IN /\ r.row = <<>> \/ Len(locations) < MaxLocations
          /\ locations' = locations \o r.row
          /\ activity' = [activity EXCEPT ![u] = r.activity]
          /\ locsvc' = [locsvc EXCEPT ![u] = r.locsvc]
          /\ ghost' = [ghost EXCEPT ![u] = r.ghost]
          /\ banned' = [banned EXCEPT ![u] = r.banned]
          /\ ulResp' = [status |-> r.resp.status, body |-> r.resp.body, alt |-> o.resp,
                        user |-> u, allowed |-> val.Allowed, created |-> io.create,
                        checked |-> r.checked, wasGhost |-> ghost[u].IsGhostMode,
                        shouldBan |-> val.ShouldBan, banOk |-> io.ban,
                        n |-> 1 - ulResp.n]
    /\ UNCHANGED <<rtVars, smVars, mainVars, feedVars>>

\* The user turns ghost mode on or off through the profile endpoint.
ToggleGhostMode(u, on) ==
    /\ ghost' = [ghost EXCEPT ![u] = [IsGhostMode |-> on, Expired |-> FALSE]]
    /\ UNCHANGED <<rtVars, smVars, mainVars, feedVars, locations, activity, locsvc, banned, ulResp>>

\* Time passes GhostModeExpiresAt.
GhostExpire(u) ==
    /\ ghost[u].IsGhostMode
    /\ ~ghost[u].Expired
    /\ ghost' = [ghost EXCEPT ![u].Expired = TRUE]
    /\ UNCHANGED <<rtVars, smVars, mainVars, feedVars, locations, activity, locsvc, banned, ulResp>>

\* -------------------------------------------------------------- feed cache

\* A key redis still holds at the current time: present and not yet at its
\* expiry, the expiry instant included.
LiveInclusive(e) == e.present /\ (e.exp = NoExpiry \/ now <= e.exp)

\* A key redis still holds at the current time: present and before its
\* expiry.
Live(e) == e.present /\ (e.exp = NoExpiry \/ now < e.exp)

\* redis.Get: an absent or expired key yields redis.Nil and the empty string.
RedisGet(k) ==
    IF Live(cache[k]) THEN [err |-> FALSE, val |-> cache[k].val]
    ELSE [err |-> TRUE, val |-> EmptyData]

\* redis.Set(k, v, ttl): an expiration of 0 stores the key without expiry.
RedisSet(c, k, v, ttl) ==
    [c EXCEPT ![k] = [present |-> TRUE, val |-> v,
                      exp |-> IF ttl = 0 THEN NoExpiry ELSE now + ttl]]

\* redis.Del(k): removes k if present, whatever else the cache holds.
RedisDel(c, k) == [x \in DOMAIN c |-> IF x = k THEN NoValue ELSE c[x]]

\* Points within the 50 km radius of each other: P1 and P2 are 1.5 km
\* apart, P3 is 1100 km from both.
Near(a, b) == (a = "P3") = (b = "P3")

\* store.GetStoriesWithinRadius for a viewer at pt.
GetStoriesWithinRadius(pt) == {st \in stories : Near(st.pt, pt)}

\* The gin.H getFeed answers with, as json.Marshal renders it.
FeedPayload(rows) ==
    [stories |-> rows, count |-> Cardinality(rows),
     message |-> IF rows = {} THEN "No stories found within 50km"
                 ELSE "Stories found nearby",
     search_radius |-> 50000]

\* cacheKey of getFeed for a viewer at pt.
GetFeedKey(pt) == FeedKey(Truncate(GeohashEncode(pt), FeedPrecision))

\* getFeed between two requests.
GetFeedIdle == [pc |-> "idle", pt |-> "P1", body |-> NoBody]

\* The one viewer of the runs where who asks makes no difference.
Viewer == "A"

\* getFeed of user u up to the cache lookup: a hit answers with the cached
\* bytes as they are and X-Cache HIT, whoever stored them; anything else goes
\* on to the store with u's id (authPayload.UserID).
GetFeedLookup(u, pt) ==
    /\ gf.pc = "idle"
    /\ LET r == RedisGet(GetFeedKey(pt))
       IN IF ~r.err /\ r.val # EmptyData
          THEN /\ feedResp' = [status |-> 200, xcache |-> "HIT", body |-> r.val]
               /\ prov' = [prov EXCEPT !.resp = [user |-> u, by |-> prov.set[GetFeedKey(pt)]]]
               /\ UNCHANGED gf
          ELSE /\ gf' = [pc |-> "query", pt |-> pt, body |-> NoBody]
               /\ prov' = [prov EXCEPT !.req = u]
               /\ UNCHANGED feedResp
    /\ sinceWrite' = [sinceWrite EXCEPT ![GetFeedKey(pt)] = FALSE]
    /\ UNCHANGED <<rtVars, smVars, mainPc, rlock, readVars, adminVars, locVars, now, cache,
                   stories, sw, lastSet>>

\* getFeed on a miss: story.GetFeed reads the store; a store error answers
\* 500 and caches nothing.
GetFeedQuery ==
    /\ gf.pc = "query"
    /\ \/ /\ gf' = [gf EXCEPT !.pc = "set",
                              !.body = FeedPayload(GetStoriesWithinRadius(gf.pt))]
          /\ UNCHANGED feedResp
       \/ /\ gf' = GetFeedIdle
          /\ feedResp' = [status |-> 500, xcache |-> "none", body |-> NoBody]
    /\ UNCHANGED <<rtVars, smVars, mainVars, locVars, now, cache, stories, sw, lastSet, sinceWrite>>

\* getFeed on a miss: the payload is stored under the key for feedCacheTTL
\* and answered with X-Cache MISS.
GetFeedSet ==
    /\ gf.pc = "set"
    /\ cache' = RedisSet(cache, GetFeedKey(gf.pt), gf.body, FeedCacheTTL)
    /\ lastSet' = [lastSet EXCEPT ![GetFeedKey(gf.pt)] =
                     [val |-> gf.body, at |-> now, valid |-> TRUE]]
    /\ feedResp' = [status |-> 200, xcache |-> "MISS", body |-> gf.body]
    /\ prov' = [prov EXCEPT !.set[GetFeedKey(gf.pt)] = prov.req,
                            !.resp = [user |-> prov.req, by |-> prov.req]]
    /\ gf' = GetFeedIdle
    /\ UNCHANGED <<rtVars, smVars, mainPc, rlock, readVars, adminVars, locVars, now,
                   stories, sw, sinceWrite>>

\* The verdict of a sample the Monitor lets through.
Plausible == [Allowed |-> TRUE, ShouldBan |-> FALSE]

\* story.CreateStory up to the store writes: the Monitor's verdict val is only
\* logged (when ShouldBan) and nothing branches on it; a failed GetUserByID or
\* CreateStory returns the error, a failed UpdateUserActivity is only logged.
\* sw.val keeps the verdict of the call until it returns.
CreateStory(u, pt, val, io) ==
    /\ sw.pc = "idle"
    /\ sw.created < MaxStories
    /\ IF io.user /\ io.create
       THEN LET row == [id |-> sw.created + 1, user_id |-> u,
                        geohash |-> GeohashEncode(pt), pt |-> pt, caption |-> 0]
            IN /\ stories' = stories \cup {row}
               /\ activity' = [activity EXCEPT ![u] =
                                 IF io.activity THEN @ + 1 ELSE @]
               /\ sw' = [pc |-> "invalidate", geohash |-> row.geohash,
                         created |-> sw.created + 1, val |-> val]
       ELSE UNCHANGED <<stories, activity, sw>>
    /\ UNCHANGED <<rtVars, smVars, mainVars, locations, locsvc, ghost, banned, ulResp, now,
                   cache, gf, feedResp, lastSet, sinceWrite>>

\* story.DeleteStory up to the store delete: only the owner's existing
\* story is deleted; a failed store call returns the error.
DeleteStory(u, id, ok) ==
    /\ sw.pc = "idle"
    /\ \E st \in stories :
          /\ st.id = id
          /\ IF st.user_id = u /\ ok
             THEN /\ stories' = stories \ {st}
                  /\ sw' = [sw EXCEPT !.pc = "invalidate", !.geohash = st.geohash]
             ELSE UNCHANGED <<stories, sw>>
    /\ UNCHANGED <<rtVars, smVars, mainVars, locVars, now, cache, gf, feedResp, lastSet, sinceWrite>>

\* updateStory up to store.UpdateStory, which updates the row only of the
\* owner's existing story (sql.ErrNoRows otherwise, answered 403; any other
\* store error is answered 500); the request's caption replaces the row's.
updateStory(u, id, ok) ==
    /\ sw.pc = "idle"
    /\ \E st \in stories :
          /\ st.id = id
          /\ IF st.user_id = u /\ ok
             THEN /\ stories' = (stories \ {st}) \cup {[st EXCEPT !.caption = 1]}
                  /\ sw' = [sw EXCEPT !.pc = "invalidate", !.geohash = st.geohash]
             ELSE UNCHANGED <<stories, sw>>
    /\ UNCHANGED <<rtVars, smVars, mainVars, locVars, now, cache, gf, feedResp, lastSet, sinceWrite>>

\* The bucket a story's geohash falls in: userGeohash = hash[:5].
StoryBucket(geohash) == Truncate(geohash, FeedPrecision)

\* invalidateFeedCache at the end of CreateStory and DeleteStory.
invalidateFeedCache ==
    /\ sw.pc = "invalidate"
    /\ LET k == FeedKey(StoryBucket(sw.geohash))
       IN /\ cache' = RedisDel(cache, k)
          /\ lastSet' = [x \in DOMAIN lastSet |->
                           IF x = k THEN [lastSet[x] EXCEPT !.valid = FALSE]
                           ELSE lastSet[x]]
    /\ sinceWrite' = [sinceWrite EXCEPT ![FeedKey(StoryBucket(sw.geohash))] = TRUE]
    /\ sw' = [sw EXCEPT !.pc = "idle", !.geohash = <<>>, !.val = Plausible]
    /\ UNCHANGED <<rtVars, smVars, mainVars, locVars, now, stories, gf, feedResp>>

\* ---------------------------------------------------- admin.DeleteStory

\* admin DeleteStory up to store.DeleteStory, which deletes the story of that
\* id whoever owns it: a store error is returned and nothing else is done.
AdminDeleteStory(id, ok) ==
    /\ ad.pc = "idle"
    /\ IF ok
       THEN /\ stories' = {st \in stories : st.id # id}
            /\ ad' = [pc |-> "keys", keys |-> {}, resp |-> "none"]
       ELSE /\ ad' = [pc |-> "idle", keys |-> {}, resp |-> "error"]
            /\ UNCHANGED stories
    /\ UNCHANGED <<rtVars, smVars, mainPc, rlock, readVars, viewVars, locVars, now, cache,
                   gf, sw, feedResp, lastSet, sinceWrite>>

\* redis.Keys("feed:*"): the keys the cache holds at this moment. With an
\* error, or with no key, nothing is deleted and nil is returned.
AdminKeys(ok) ==
    /\ ad.pc = "keys"
    /\ LET keys == {k \in FeedKeys : Live(cache[k])}
       IN ad' = IF ok /\ keys # {}
                THEN [pc |-> "del", keys |-> keys, resp |-> "none"]
                ELSE [pc |-> "idle", keys |-> {}, resp |-> "ok"]
    /\ UNCHANGED <<rtVars, smVars, mainPc, rlock, readVars, viewVars, locVars, feedVars>>

\* redis.Del(keys...), its result dropped, and return nil.
AdminDel(ok) ==
    /\ ad.pc = "del"
    /\ IF ok
       THEN /\ cache' = [k \in DOMAIN cache |-> IF k \in ad.keys THEN NoValue ELSE cache[k]]
            /\ lastSet' = [k \in DOMAIN lastSet |->
                             IF k \in ad.keys THEN [lastSet[k] EXCEPT !.valid = FALSE]
                             ELSE lastSet[k]]
       ELSE UNCHANGED <<cache, lastSet>>
    /\ ad' = [pc |-> "idle", keys |-> {}, resp |-> "ok"]
    /\ UNCHANGED <<rtVars, smVars, mainPc, rlock, readVars, viewVars, locVars, now,
                   stories, gf, sw, feedResp, sinceWrite>>

\* A minute passes.
Tick ==
    /\ now < MaxTime
    /\ now' = now + 1
    /\ UNCHANGED <<rtVars, smVars, mainVars, locVars, cache, stories, gf, sw, feedResp, lastSet,
                   sinceWrite>>

\* --------------------------------------------------------------------- main

\* signal.NotifyContext: SIGINT or SIGTERM cancels ctx and main goes on past
\* <-ctx.Done(). Nothing else is told of it: the Hub has no done channel.
MainSignal ==
    /\ mainPc = "serving"
    /\ mainPc' = "grace"
    /\ UNCHANGED <<rtVars, smVars, httpVars, rlock, readVars, adminVars, viewVars>>

\* The 5 s of shutdownCtx run out: main logs "Server stopped" and returns,
\* which ends the process and every goroutine with it.
MainStopped ==
    /\ mainPc = "grace"
    /\ mainPc' = "stopped"
    /\ UNCHANGED <<rtVars, smVars, httpVars, rlock, readVars, adminVars, viewVars>>

\* ------------------------------------------------------------ specification

\* The steps of one process's Hub.Run and listenRedisStream goroutines.
HubStep(p) ==
    \/ HubRegister(p)
    \/ HubUnregister(p)

TailStep(p) ==
    \/ XReadCall(p)
    \/ XReadNil(p)
    \/ XReadError(p)
    \/ ProcessMessage(p)

\* The steps of one Session: its handler and its two pumps.
SessionStep(c) ==
    \/ ServeWS(c)
    \/ ReadPumpExit(c)
    \/ ReadPumpClose(c)
    \/ \E r \in TypingReceivers : ReadPumpTyping(c, r)
    \/ WritePumpMessage(c)
    \/ WritePumpClosed(c)
    \/ WritePumpPing(c)

\* One process with its Sessions; the publishers are the Sessions' typing frames.
Next ==
    \/ \E c \in Clients : SessionStep(c)
    \/ HubStep("p2")
    \/ TailStep("p2")

Spec == Init /\ [][Next]_vars

\* One process from start to stop: its goroutines run until main returns.
NextMain ==
    \/ mainPc # "stopped" /\ Next
    \/ MainSignal
    \/ MainStopped

SpecMain == Init /\ [][NextMain]_vars

\* The Sessions that connect in the runs where termination is followed.
LiveClients == {"c1"}

\* One process with a Session, ReadPump's break seen apart from the send on
\* Unregister; the Session's own typing frames are the deliveries that run
\* beside its termination. The Go scheduler runs every runnable goroutine: Hub.Run and
\* the pumps take the steps they can take; a sender blocked on Unregister is
\* served by Hub.Run's select whenever the loop is back at it.
NextLive ==
    \/ \E c \in LiveClients : SessionStep(c)
    \/ \E c \in LiveClients : ReadPumpBreak(c)
    \/ HubStep("p2")
    \/ TailStep("p2")

Fairness ==
    /\ WF_vars(HubStep("p2"))
    /\ \A c \in LiveClients :
        /\ SF_vars(ReadPumpExit(c))
        /\ WF_vars(ReadPumpClose(c))
        /\ WF_vars(WritePumpMessage(c))
        /\ WF_vars(WritePumpClosed(c))

SpecLive == Init /\ [][NextLive]_vars /\ Fairness

\* One process whose Sessions receive frames as time passes.
NextRead ==
    \/ \E c \in Clients : ServeWS(c)
    \/ HubStep("p2")
    \/ \E d \in TickSteps : ClockTick(d)
    \/ \E c \in Clients : ReadPumpOther(c)
    \/ \E c \in Clients : ReadPumpPong(c)
    \/ \E c \in Clients : ReadPumpTimeout(c)
    \/ \E c \in Clients : ReadPumpClose(c)

SpecRead == Init /\ [][NextRead]_vars

\* One process with a Session that receives typing frames for any user, and
\* other frames, as time passes, while the process tails the stream.
NextTyping ==
    \/ \E c \in LiveClients : ServeWS(c)
    \/ HubStep("p2")
    \/ TailStep("p2")
    \/ \E d \in TickSteps : ClockTick(d)
    \/ \E c \in LiveClients, r \in Users : ReadPumpTyping(c, r)
    \/ \E c \in LiveClients : ReadPumpOther(c)
    \/ \E c \in LiveClients : ReadPumpExit(c)

SpecTyping == Init /\ [][NextTyping]_vars

\* One process with a Session, its typing frames, and another writer that
\* puts malformed records on the stream.
NextMalformed ==
    \/ \E c \in LiveClients : SessionStep(c)
    \/ HubStep("p2")
    \/ TailStep("p2")
    \/ \E v \in MalformedValues : XAddForeign(v)

SpecMalformed == Init /\ [][NextMalformed]_vars

\* One process with two Sessions of one user, records addressed to that user
\* and to a user with no Session there, and queues that fill and drain.
NextLocal ==
    \/ \E c \in Clients : ServeWS(c)
    \/ \E c \in Clients : ReadPumpExit(c)
    \/ \E c \in Clients : WritePumpMessage(c)
    \/ \E r \in Users : ReadPumpTyping("c1", r)
    \/ HubStep("p2")
    \/ XReadCall("p2")
    \/ ProcessMessage("p2")

SpecLocal == Init /\ [][NextLocal]_vars

\* One process with its Sessions and a caller of IsUserOnline.
NextOnline ==
    \/ Next
    \/ \E g \in Callers : IsUserOnlineRLock(g, "p2")
    \/ \E g \in Callers : IsUserOnlineReturn(g, "p2")

SpecOnline == Init /\ [][NextOnline]_vars

\* The location endpoint alone, called by one user.
LocUsers == {"A"}

LocPoints == {"P1", BadPoint}

NextLoc ==
    \/ \E u \in LocUsers, pt \in LocPoints, val \in Verdicts,
          io \in StoreOutcomes : updateLocation(u, pt, val, io)
    \/ \E u \in LocUsers, on \in BOOLEAN : ToggleGhostMode(u, on)
    \/ \E u \in LocUsers : GhostExpire(u)

SpecLoc == Init /\ [][NextLoc]_vars

\* The feed endpoint and the story writes that invalidate its cache.
FeedUsers == {"A", "B"}

StoryAuthors == {"A"}

StoryPoints == {"P1"}

\* The store calls of CreateStory that can fail: GetUserByID and CreateStory
\* (UpdateUserActivity, whose failure is only logged, succeeds).
StoryOutcomes == [user : BOOLEAN, create : BOOLEAN, activity : {TRUE}]

NextFeed ==
    \/ \E pt \in Points : GetFeedLookup(Viewer, pt)
    \/ GetFeedQuery
    \/ GetFeedSet
    \/ \E u \in StoryAuthors, pt \in StoryPoints, io \in StoryOutcomes :
          CreateStory(u, pt, Plausible, io)
    \/ \E u \in FeedUsers, id \in 1..MaxStories, ok \in BOOLEAN : DeleteStory(u, id, ok)
    \/ invalidateFeedCache
    \/ Tick

SpecFeed == Init /\ [][NextFeed]_vars

\* The feed endpoint and story writes whose coordinates the Monitor may
\* reject.
NextMonitor ==
    \/ \E pt \in Points : GetFeedLookup(Viewer, pt)
    \/ GetFeedQuery
    \/ GetFeedSet
    \/ \E u \in StoryAuthors, pt \in StoryPoints, val \in Verdicts, io \in StoryOutcomes :
          CreateStory(u, pt, val, io)
    \/ invalidateFeedCache
    \/ Tick

SpecMonitor == Init /\ [][NextMonitor]_vars

\* The feed endpoint, story creation and the moderation delete.
NextAdmin ==
    \/ \E pt \in Points : GetFeedLookup(Viewer, pt)
    \/ GetFeedQuery
    \/ GetFeedSet
    \/ \E u \in StoryAuthors, pt \in StoryPoints, io \in StoryOutcomes :
          CreateStory(u, pt, Plausible, io)
    \/ invalidateFeedCache
    \/ \E id \in 1..MaxStories, ok \in BOOLEAN : AdminDeleteStory(id, ok)
    \/ \E ok \in BOOLEAN : AdminKeys(ok)
    \/ \E ok \in BOOLEAN : AdminDel(ok)
    \/ Tick

SpecAdmin == Init /\ [][NextAdmin]_vars

\* The feed endpoint called by two users, and story creation.
NextViewers ==
    \/ \E u \in FeedUsers, pt \in Points : GetFeedLookup(u, pt)
    \/ GetFeedQuery
    \/ GetFeedSet
    \/ \E u \in StoryAuthors, pt \in StoryPoints, io \in StoryOutcomes :
          CreateStory(u, pt, Plausible, io)
    \/ invalidateFeedCache
    \/ Tick

SpecViewers == Init /\ [][NextViewers]_vars

\* The feed endpoint with every story write: create, delete and update.
NextStory ==
    \/ NextFeed
    \/ \E u \in FeedUsers, id \in 1..MaxStories, ok \in BOOLEAN : updateStory(u, id, ok)

SpecStory == Init /\ [][NextStory]_vars

\* A message sent through one process to a user connected to the other: the
\* HTTP handler runs in SendMessageProc, the receiver's Session in p2, and
\* each process runs its tailing loop.
NextCross ==
    \/ \E a \in Senders, b \in Receivers : SendMessageCreate(a, b)
    \/ SendMessageNotify
    \/ SendMessageEcho
    \/ ServeWS("c1")
    \/ HubRegister("p2")
    \/ WritePumpMessage("c1")
    \/ \E p \in Procs : TailStep(p)

SpecCross == Init /\ [][NextCross]_vars

\* ------------------------------------------------------------- properties

\* Number of times x occurs in the sequence q.
Count(q, x) == Cardinality({i \in 1..Len(q) : q[i] = x})

\* The entry ids of the messages in a queue or on the wire, in order.
SeqsOf(q) == [i \in 1..Len(q) |-> q[i].seq]

StrictlyIncreasing(q) == \A i, j \in 1..Len(q) : i < j => q[i] < q[j]

\* Everything a Session was handed so far: what its pump wrote, then what
\* is still queued.
Received(c) == wire[c] \o Send[c]

\* The step of p's loop that handles the first entry of its batch.
Processing(p) == tail[p].pc = "process" /\ tail'[p] # tail[p]

\* The user the first entry of p's batch is for (the entries SendToUser
\* writes always parse).
BatchTarget(p) == UUIDParse(Head(tail[p].batch).values.target_user_id).id

\* C1: once a Session's own unregister call has returned (ReadPump's send on
\* Hub.Unregister), the Hub registry no longer contains that Session.
C1_UnregisteredOnReturn ==
    \A c \in Clients :
        sess[c].readPump \in {"closing", "done"} => c \notin Registered(ClientHub(c))

\* C2: a process's tailing loop hands each entry to broadcastToLocal at most
\* once, and exactly once when a Session of the target user is registered as
\* the entry is handled (that Session is then given the entry once or is
\* dropped); the cursor lastID never moves backward.
C2_AtMostOnce ==
    /\ \A p \in Procs : \A id \in 1..lastGenID : Count(delivered[p], id) <= 1
    /\ \A c \in Clients : \A id \in 1..lastGenID : Count(SeqsOf(Received(c)), id) <= 1

C2_ExactlyOnceStep ==
    \A p \in Procs :
        Processing(p) =>
            LET id == Head(tail[p].batch).id
            IN /\ tail'[p].lastID = id
               /\ tail[p].lastID = Dollar \/ tail[p].lastID < id
               /\ LocalSessions(p, BatchTarget(p)) # {} =>
                     /\ Count(delivered'[p], id) = 1
                     /\ \A c \in LocalSessions(p, BatchTarget(p)) :
                           \/ Count(SeqsOf(Received(c)'), id) = 1
                           \/ closedBy'[c] = [path |-> "full", seq |-> id]

C2_CursorMonotone ==
    \A p \in Procs :
        \/ tail[p].lastID = Dollar
        \/ tail'[p].lastID # Dollar /\ tail'[p].lastID >= tail[p].lastID

C2_NoDuplicateDelivery ==
    [](C2_AtMostOnce) /\ [][C2_ExactlyOnceStep /\ C2_CursorMonotone]_vars

\* C2 witness: a Session of the target user was registered and got an entry
\* after the loop had already handled an earlier one.
C2_Witness ==
    \E c \in Clients :
        /\ Len(delivered[ClientHub(c)]) >= 2
        /\ Len(Received(c)) >= 2

\* The id p's loop has read up to: the id its blocked XREAD waits after, or
\* its cursor once that is an id.
ReadUpTo(p) ==
    IF tail[p].pc = "blocked" THEN tail[p].since
    ELSE IF tail[p].lastID = Dollar THEN 0 ELSE tail[p].lastID

InBatch(p, id) == \E i \in 1..Len(tail[p].batch) : tail[p].batch[i].id = id

\* C3: every entry appended after p's loop issued its first XREAD, and still
\* retained, is read by that loop and passed to broadcastToLocal: the loop
\* never reads past such an entry without having been given it.
C3_EveryRecordRead ==
    \A p \in Procs : \A i \in 1..Len(stream) :
        LET r == stream[i]
        IN (tail[p].start # NotStarted /\ r.id > tail[p].start /\ ReadUpTo(p) >= r.id)
              => (Count(delivered[p], r.id) = 1 \/ InBatch(p, r.id))

\* The entry with this id is still retained by the stream.
Retained(id) == \E i \in 1..Len(stream) : stream[i].id = id

\* C5: a new_message published by sendMessage in one process for a user
\* whose Session is registered, with room in its queue, in another process
\* whose loop is reading, is enqueued on that Session with type new_message,
\* the sender's id and the stored message as payload: the loop never reads
\* past the retained entry while the Session stays registered without the
\* Session having been given it.
C5_CrossProcessDelivery ==
    \A o \in owed :
        LET id == o[1]
            c == o[2]
            p == ClientHub(c)
        IN (/\ Retained(id)
            /\ ReadUpTo(p) >= id
            /\ ~InBatch(p, id)
            /\ c \in Registered(p))
              => \E i \in 1..Len(Received(c)) : \E msg \in messages :
                    /\ msg.sender_id = "A"
                    /\ Received(c)[i] =
                         [seq |-> id,
                          data |-> MarshalWSMessage(NewMessageWS(msg, msg.sender_id))]

\* C12: when the process reports itself stopped after a shutdown signal,
\* every Session that was registered has been closed and the registry is
\* empty (Hub.Run and listenRedisStream have no return to be signalled to).
C12_DrainedWhenStopped ==
    mainPc = "stopped" =>
        /\ Registered("p2") = {}
        /\ \A c \in Clients : sess[c].handler # "new" => sendClosed[c]

\* C13: a failed read never ends the loop, which waits the backoff and reads
\* again; and the entries appended after the failure (the log being
\* reachable again) and still retained are returned by that next read, so
\* that they are handed to broadcastToLocal.
C13_RetryStep ==
    \A p \in Procs : XReadError(p) => tail'[p].pc = "backoff"

C13_ReadAfterBackoffStep ==
    \A p \in Procs :
        (tail[p].pc = "backoff" /\ XReadCall(p)) =>
            tail'[p].batch = XReadResult(tail[p].since)

C13_FailedReadRecovers == [][C13_RetryStep /\ C13_ReadAfterBackoffStep]_vars

\* C15: the registry is written only by Hub.Run's register and unregister
\* cases, under the exclusive lock: no step of another goroutine changes
\* it, and none changes it while a read lock is held.
C15_RegistryWriteStep ==
    \A p \in Procs :
        clients'[p] # clients[p] =>
            /\ hubPc[p][1] \in {"register", "unregister"}
            /\ hubPc'[p][1] = "select"
            /\ rlock[p] = {}

C15_WritesUnderExclusiveLock == [][C15_RegistryWriteStep]_vars

\* C16: a Session is in a Hub's registry only while its connection is open,
\* also after WritePump returned on a failed write or ping and closed it.
C16_RegisteredOnlyWhileOpen ==
    \A p \in Procs : \A c \in Registered(p) : sess[c].connOpen

\* C17: WritePump writes no frame on a connection that was closed. A step
\* that puts a message on the wire, or that ends WritePump (a failed write,
\* a failed ping, the close frame), is a write; each is made while the
\* connection is still open.
C17_WriteStep ==
    \A c \in Clients :
        (wire'[c] # wire[c] \/ (sess[c].writePump = "run" /\ sess'[c].writePump = "done"))
            => sess[c].connOpen

C17_NoWriteAfterClose == [][C17_WriteStep]_vars

\* C18: once ReadPump has left its loop, Hub.Run eventually receives its
\* unregister request, the Session's Send channel ends up closed and
\* WritePump eventually returns, whatever the deliveries in between and
\* also when the Session was dropped for a full queue before.
C18_ExitLeadsToTeardown ==
    \A c \in Clients :
        (sess[c].readPump = "exiting") ~>
            (/\ sess[c].readPump \in {"closing", "done"}
             /\ sendClosed[c]
             /\ sess[c].writePump = "done")

\* A Session dropped for a full queue whose ReadPump then left its loop and
\* which is torn down: request received, Send closed, WritePump returned.
C18_Witness ==
    \E c \in Clients :
        /\ closedBy[c].path = "full"
        /\ sess[c].readPump = "done"
        /\ sendClosed[c]
        /\ sess[c].writePump = "done"

\* C19: every received frame, data or pong, refreshes the read deadline: a
\* ReadPump that leaves its loop on the deadline has received no frame for
\* PongWait seconds.
C19_TimeoutStep ==
    \A c \in Clients : ReadPumpTimeout(c) => clock - lastFrame[c] >= PongWait

C19_AnyFrameRefreshesDeadline == [][C19_TimeoutStep]_vars

\* The frame kept nothing in a store and left every Session as it was.
C20_Ephemeral ==
    /\ messages' = messages
    /\ locations' = locations
    /\ stories' = stories
    /\ sess' = sess

\* The stream after a step holds what it held (less what the trim dropped)
\* and one new last entry: a typing record for r naming c's user.
C20_OneTypingRecord(c, r) ==
    /\ lastGenID' = lastGenID + 1
    /\ Len(stream') >= 1
    /\ \E k \in 0..Len(stream) : SubSeq(stream', 1, Len(stream') - 1) = Trimmed(stream, k)
    /\ LET e == stream'[Len(stream')]
       IN /\ e.id = lastGenID'
          /\ e.values.target_user_id = UUIDString(r)
          /\ e.values.payload.type = "typing"
          /\ e.values.payload.payload.user_id = ClientUserID(c)
          /\ e.values.payload.payload.username = ClientUsername(c)

\* C20 (original statement): every typing frame puts exactly one record on
\* the stream.
C20_TypingAlwaysPublishes ==
    [][\A c \in Clients, r \in Users :
          ReadPumpTyping(c, r) => C20_OneTypingRecord(c, r)]_vars

\* C20: a typing frame for r makes one XADD: when it succeeds exactly one
\* record is added, addressed to r, of type typing, with the Session's user
\* id and username; when it fails the stream is left as it was. Nothing is
\* stored. A frame that is no typing frame leaves the stream as it was and the
\* Session in its loop.
C20_TypingStep ==
    \A c \in Clients, r \in Users :
        ReadPumpTyping(c, r) =>
            /\ C20_OneTypingRecord(c, r) \/ (stream' = stream /\ lastGenID' = lastGenID)
            /\ C20_Ephemeral

C20_OtherStep ==
    \A c \in Clients :
        ReadPumpOther(c) =>
            /\ stream' = stream
            /\ lastGenID' = lastGenID
            /\ C20_Ephemeral
            /\ sess'[c].readPump = "run"

C20_TypingRepublishedOnly == [][C20_TypingStep /\ C20_OtherStep]_vars

\* A typing record for user A sent by a Session of user B is on the stream,
\* and a Session that received another frame later is still in its loop.
C20_Witness ==
    /\ \E i \in 1..Len(stream) :
          /\ stream[i].values.target_user_id = UUIDString("A")
          /\ stream[i].values.payload.type = "typing"
          /\ stream[i].values.payload.payload.user_id = "B"
    /\ \E c \in Clients : lastFrame[c] > 0 /\ sess[c].readPump = "run"

\* The Values lack target_user_id or payload, or name no valid user id.
Malformed(values) ==
    ~ /\ "target_user_id" \in DOMAIN values
      /\ "payload" \in DOMAIN values
      /\ \E u \in Users : values.target_user_id = <<"uuid", u>>

\* C21: the loop's step on a malformed record delivers nothing and closes
\* nothing, moves the cursor to the record and goes on with the rest of the
\* batch; no batch ever holds a record at or before the cursor, so the record
\* is not read again.
C21_SkipStep ==
    \A p \in Procs :
        (/\ tail[p].pc = "process"
         /\ Malformed(Head(tail[p].batch).values)
         /\ tail'[p] # tail[p]
         /\ lastGenID' = lastGenID) =>
            /\ Send' = Send
            /\ sendClosed' = sendClosed
            /\ clients' = clients
            /\ delivered' = delivered
            /\ tail'[p].lastID = Head(tail[p].batch).id
            /\ tail'[p].batch = Tail(tail[p].batch)
            /\ tail'[p].pc = IF Tail(tail[p].batch) = <<>> THEN "call" ELSE "process"

C21_NotReadAgain ==
    \A p \in Procs :
        \A i \in 1..Len(tail'[p].batch) : tail'[p].batch[i].id > tail'[p].lastID

C21_MalformedSkipped == [][C21_SkipStep /\ C21_NotReadAgain]_vars

\* A malformed record was skipped in a batch whose later record was
\* delivered: the cursor is past both.
C21_Witness ==
    \E i \in 1..Len(stream) :
        /\ Malformed(stream[i].values)
        /\ tail["p2"].lastID > stream[i].id
        /\ stream[i].id \notin {delivered["p2"][j] : j \in 1..Len(delivered["p2"])}
        /\ \E j \in 1..Len(delivered["p2"]) : delivered["p2"][j] > stream[i].id

\* C22: a process hands to broadcastToLocal, and queues on its Sessions, only
\* records appended after its loop issued its first XREAD.
C22_NoHistoricalReplay ==
    \A p \in Procs :
        /\ \A i \in 1..Len(delivered[p]) :
              tail[p].start # NotStarted /\ delivered[p][i] > tail[p].start
        /\ \A c \in Clients :
              ClientHub(c) = p =>
                  \A i \in 1..Len(Send[c]) :
                      tail[p].start # NotStarted /\ Send[c][i].seq > tail[p].start

\* A record for user B appended before the first XREAD is retained, B has a
\* Session registered, and the loop has since delivered a later record.
C22_Witness ==
    \E i \in 1..Len(stream) :
        /\ tail["p2"].start # NotStarted
        /\ stream[i].id <= tail["p2"].start
        /\ stream[i].values.target_user_id = UUIDString("B")
        /\ \E c \in Registered("p2") : ClientUserID(c) = "B"
        /\ Len(delivered["p2"]) > 0

\* C23: a CreateStory whose coordinates the Monitor rejected stores no story
\* and leaves the cache as it was.
C23_RejectedCreateStep ==
    /\ (sw.pc = "idle" /\ sw'.pc = "invalidate" /\ ~sw'.val.Allowed) => stories' = stories
    /\ (sw.pc = "invalidate" /\ ~sw.val.Allowed /\ sw'.pc = "idle") => cache' = cache

C23_RejectedStoryDiscarded == [][C23_RejectedCreateStep]_vars

\* C24: when the admin DeleteStory returns success the cache holds no feed
\* key, neither one that was there when the call began nor one a getFeed
\* wrote during the call; when the store delete fails the cache is as it was
\* and the error is returned.
C24_ReturnStep ==
    /\ (ad.pc # "idle" /\ ad'.pc = "idle") =>
          /\ ad'.resp = "ok"
          /\ \A k \in FeedKeys : ~Live(cache[k])'
    /\ (ad.pc = "idle" /\ ad'.pc = "idle" /\ ad' # ad) =>
          /\ ad'.resp = "error"
          /\ cache' = cache

C24_BulkInvalidation == [][C24_ReturnStep]_vars

\* C25: an updateLocation of a user whose ghost mode is on and not expired
\* answers ghost, runs no movement check and stores nothing, whatever the
\* store calls return.
C25_GhostStep ==
    \A u \in Users :
        (/\ ulResp'.n # ulResp.n
         /\ ulResp'.user = u
         /\ ulResp'.status # 400
         /\ ghost[u].IsGhostMode
         /\ ~ghost[u].Expired) =>
            /\ ulResp'.body = "ghost"
            /\ ~ulResp'.checked
            /\ locations' = locations
            /\ activity' = activity
            /\ locsvc' = locsvc

C25_GhostNeverLocated == [][C25_GhostStep]_vars

\* C26: the loop's step on a well-formed record for user u with message m
\* puts m once behind what each Session registered for u with room in its
\* queue holds, and leaves the queue of every Session not registered for u as
\* it was; with no Session registered for u nothing changes.
C26_BroadcastStep ==
    \A p \in Procs, u \in Users :
        (/\ tail[p].pc = "process"
         /\ tail'[p] # tail[p]
         /\ lastGenID' = lastGenID
         /\ ~Malformed(Head(tail[p].batch).values)
         /\ Head(tail[p].batch).values.target_user_id = <<"uuid", u>>) =>
            LET msg == Head(tail[p].batch)
                m   == [seq |-> msg.id, data |-> msg.values.payload]
                reg == IF clients[p][u].ok THEN clients[p][u].m ELSE {}
            IN /\ \A c \in reg :
                     Len(Send[c]) < SendCap => Send'[c] = Send[c] \o <<m>>
               /\ \A c \in Clients \ reg : Send'[c] = Send[c]
               /\ reg = {} => (Send' = Send /\ clients' = clients /\ sendClosed' = sendClosed)

C26_LocalDelivery == [][C26_BroadcastStep]_vars

\* Both Sessions of user B hold the same delivered message, and a record for
\* user A, who has no Session, was processed without reaching either.
C26_Witness ==
    /\ Cardinality(Registered("p2")) = 2
    /\ \E i \in 1..Len(stream) :
          /\ stream[i].values.target_user_id = UUIDString("A")
          /\ \E j \in 1..Len(delivered["p2"]) : delivered["p2"][j] = stream[i].id
          /\ \A c \in Clients : \A k \in 1..Len(Send[c]) : Send[c][k].seq # stream[i].id
    /\ \E k \in 1..MaxAppends :
          \A c \in Clients : \E i \in 1..Len(Send[c]) : Send[c][i].seq = k

\* C27: a Send channel is closed at most once and nothing is sent on a closed
\* one: a step that closes a Session's channel, or that queues a message on
\* it, finds the channel open; every Session in a registry, the only ones
\* the closing and sending code reaches, has its channel open.
C27_CloseOrSendStep ==
    \A c \in Clients :
        /\ closedBy'[c] # closedBy[c] => ~sendClosed[c]
        /\ Len(Send'[c]) > Len(Send[c]) => ~sendClosed[c]
        /\ (c \in Registered(ClientHub(c)))' => ~sendClosed'[c]

C27_ClosedOnceNeverSentAfter == [][C27_CloseOrSendStep]_vars

\* One Session was dropped for a full queue and its later unregister request
\* has been handled; another was closed by its unregister request.
C27_Witness ==
    \E c, d \in Clients :
        /\ closedBy[c].path = "full"
        /\ sess[c].readPump = "done"
        /\ hubPc[ClientHub(c)] = <<"select", "none">>
        /\ closedBy[d].path = "unregister"

\* C28: with no getFeed and no story write in flight, the entry of the
\* bucket the story writes touch is absent or holds the payload the store
\* yields now, that is after the last write.
C28_NoStaleEntryAfterRace ==
    (gf.pc = "idle" /\ sw.pc = "idle") =>
        \A pt \in StoryPoints :
            Live(cache[GetFeedKey(pt)]) =>
                cache[GetFeedKey(pt)].val = FeedPayload(GetStoriesWithinRadius(pt))

\* C29: the payload getFeed last answered a user with was computed by the
\* store query run with that user's own id.
C29_OwnQueryOnly ==
    feedResp.status = 200 => prov.resp.by = prov.resp.user

\* C30: every user id that is a key of a registry maps to a non-empty set of
\* Sessions, so IsUserOnline is true exactly for the keys of the registry.
C30_NoEmptyEntry ==
    \A p \in Procs, u \in Users :
        /\ clients[p][u].ok => clients[p][u].m # {}
        /\ IsUserOnline(p, u) <=> clients[p][u].ok

\* C4: Client.Send never holds more than SendCap messages; the loop is never
\* blocked by a full queue (handling the next entry is always possible), and
\* the step that meets a full queue closes it and removes the Session.
C4_Capacity ==
    /\ \A c \in Clients : Len(Send[c]) <= SendCap
    /\ \A p \in Procs : tail[p].pc = "process" => ENABLED ProcessMessage(p)

C4_FullClosesStep ==
    \A p \in Procs :
        Processing(p) =>
            \A c \in LocalSessions(p, BatchTarget(p)) :
                Len(Send[c]) = SendCap =>
                    /\ sendClosed'[c]
                    /\ c \notin Registered(p)'
                    /\ Send'[c] = Send[c]

C4_BoundedQueue == [](C4_Capacity) /\ [][C4_FullClosesStep]_vars

\* C4 witness: a Session with a full queue was closed by broadcastToLocal.
C4_Witness ==
    \E c \in Clients :
        /\ closedBy[c].path = "full"
        /\ Len(Send[c]) = SendCap
        /\ c \notin Registered(ClientHub(c))

\* C9: when broadcastToLocal meets a full queue, every other registered
\* Session of that user still gets the message, the loop goes on to the next
\* entry, and nothing reaches the publisher (no pump is stopped, no answer
\* of sendMessage changes).
C9_FullIsLocalStep ==
    \A p \in Procs :
        (Processing(p) /\ Dropped(p, BatchTarget(p)) # {}) =>
            /\ \A c \in LocalSessions(p, BatchTarget(p)) \ Dropped(p, BatchTarget(p)) :
                  /\ Send'[c] = Append(Send[c], MessageOf(Head(tail[p].batch)))
                  /\ c \in Registered(p)'
                  /\ ~sendClosed'[c]
            /\ tail'[p].batch = Tail(tail[p].batch)
            /\ tail'[p].pc \in {"call", "process"}
            /\ sess' = sess
            /\ smResp' = smResp

C9_FullQueueFatalToSessionOnly == [][C9_FullIsLocalStep]_vars

\* C9 witness: one Session was dropped for a full queue at an entry that the
\* user's other Session, still registered, was given.
C9_Witness ==
    \E c, d \in Clients :
        /\ c # d
        /\ closedBy[c].path = "full"
        /\ d \in Registered(ClientHub(d))
        /\ \E i \in 1..Len(Send[d]) : Send[d][i].seq = closedBy[c].seq

\* C10: a Session that is given two entries for its user is given them, and
\* writes them, in the order they were appended: what it wrote followed by
\* what is still queued is in ascending entry order.
C10_PerSessionFIFO ==
    \A c \in Clients : StrictlyIncreasing(SeqsOf(Received(c)))

\* C10 witness: a Session's outbound loop has written two entries.
C10_Witness ==
    \E c \in Clients : Len(wire[c]) >= 2

\* The payload last stored under k is still there: stored by getFeed, not
\* invalidated since, and less than feedCacheTTL old.
Fresh(k) == lastSet[k].valid /\ now < lastSet[k].at + FeedCacheTTL

\* C6: a getFeed lookup of a key whose payload was stored less than the TTL
\* ago and not invalidated since answers 200 with exactly that payload and
\* X-Cache HIT, without going to the store; a lookup after an invalidation
\* of the key, or once the TTL has elapsed, is a miss and goes to the store.
C6_LookupStep ==
    \A pt \in Points :
        GetFeedLookup(Viewer, pt) =>
            LET k == GetFeedKey(pt)
            IN IF Fresh(k)
               THEN /\ feedResp' = [status |-> 200, xcache |-> "HIT",
                                    body |-> lastSet[k].val]
                    /\ gf'.pc = "idle"
               ELSE /\ gf'.pc = "query"
                    /\ feedResp' = feedResp

C6_InvalidateStep ==
    invalidateFeedCache =>
        \A k \in FeedKeys :
            k = FeedKey(StoryBucket(sw.geohash)) => RedisGet(k)'.err /\ ~Fresh(k)'

C11_WriteStep ==
    invalidateFeedCache =>
        \A k \in FeedKeys :
            k = FeedKey(StoryBucket(sw.geohash)) => ~cache'[k].present

C11_NextLookupStep ==
    \A pt \in Points :
        (GetFeedLookup(Viewer, pt) /\ sinceWrite[GetFeedKey(pt)]) => gf'.pc = "query"

C11_NextFeedAfterWriteMisses == [][C11_WriteStep /\ C11_NextLookupStep]_vars

\* The updateLocation step, and the one whose sample the Monitor rejected.
LocationRequest == ulResp'.n # ulResp.n

RejectedRequest == LocationRequest /\ ulResp'.checked /\ ~ulResp'.allowed

\* C7: when the Monitor answers allowed=false the sample is discarded: the
\* request creates no location row, does not update the user's activity
\* and does not update the location service.
C7_RejectedStep ==
    RejectedRequest =>
        /\ locations' = locations
        /\ activity' = activity
        /\ locsvc' = locsvc

C7_RejectedSampleDiscarded == [][C7_RejectedStep]_vars

\* C7 witness: a sample was rejected after the user had a location stored.
C7_Witness ==
    /\ ulResp.checked
    /\ ~ulResp.allowed
    /\ locations # <<>>
    /\ locsvc[ulResp.user] # NoPoint

\* C14: a rejected request on which the Monitor escalates attempts the
\* restriction (the shadow ban is written when store.BanUser succeeds), and
\* whether or not that write fails the client gets the same 200 "updated"
\* and no location row is created.
C14_EscalatedStep ==
    (RejectedRequest /\ ulResp'.shouldBan) =>
        /\ Answer(ulResp'.status, ulResp'.body) = Answer(200, "updated")
        /\ locations' = locations
        /\ banned'[ulResp'.user] = (banned[ulResp'.user] \/ ulResp'.banOk)

C14_BanFailureIsSilent == [][C14_EscalatedStep]_vars

\* C14 witness: an escalated rejection whose store.BanUser failed was
\* answered 200 and left the user unrestricted.
C14_Witness ==
    /\ ulResp.checked
    /\ ~ulResp.allowed
    /\ ulResp.shouldBan
    /\ ~ulResp.banOk
    /\ ~banned[ulResp.user]
    /\ ulResp.status = 200

\* C8 as stated: two requests of a non-ghost user that differ only in the
\* Monitor's verdict get the same success answer.
C8_SameAnswerAlways ==
    (ulResp.checked /\ ~ulResp.wasGhost) =>
        /\ Answer(ulResp.status, ulResp.body) = ulResp.alt
        /\ ulResp.status = 200

\* C8, amended: the two requests get the same success answer whenever the
\* accepted one's CreateLocation succeeds; a rejected request always gets
\* 200 "updated", and an accepted one whose CreateLocation fails gets 500.
C8_SameAnswerWhenStored ==
    (ulResp.checked /\ ~ulResp.wasGhost) =>
        /\ ulResp.created =>
              /\ Answer(ulResp.status, ulResp.body) = ulResp.alt
              /\ Answer(ulResp.status, ulResp.body) = Answer(200, "updated")
        /\ ~ulResp.allowed => Answer(ulResp.status, ulResp.body) = Answer(200, "updated")
        /\ (ulResp.allowed /\ ~ulResp.created) => ulResp.status = 500

\* C8 witness: a non-ghost user's rejected request, compared with the same
\* request accepted and stored.
C8_Witness ==
    /\ ulResp.checked
    /\ ~ulResp.wasGhost
    /\ ~ulResp.allowed
    /\ ulResp.created
    /\ ulResp.alt = Answer(200, "updated")

====
